---- MODULE Spec2Model ----
(***************************************************************************)
(* Chunked resumable transcription pipeline of the Video-Transcription-    *)
(* Generator backend: the single-worker JobQueue (engine/job_queue.py),    *)
(* the per-job pipeline process_transcription_job (main.py), the chunk     *)
(* splitter (engine/audio_chunker.py) and the transcript endpoints         *)
(* (routers/transcript.py, routers/youtube.py).                            *)
(*                                                                         *)
(* Two specifications share the queue's definitions:                       *)
(*   QueueSpec  the JobQueue class driven by an arbitrary client, with an  *)
(*              opaque processor and failure callback;                     *)
(*   Spec       the application: one media record, the endpoints, the      *)
(*              downloader and the worker running the real pipeline.       *)
(*                                                                         *)
(* A coroutine is suspended only at an await that really yields. An action *)
(* is the effect of the awaited operation followed by the synchronous code *)
(* up to the next such await.                                              *)
(***************************************************************************)
EXTENDS Integers, Sequences, FiniteSets, TLC

\* ------------------------------------------------------------------ bounds
MaxWorkers == 2
MaxQueue == 2
MaxJobs == 2
NumIds == 2
MaxChunks == 2
MaxStarts == 2
NumModels == 2
NumLangs == 3
MaxHints == 3
MaxReloads == 2

Workers == 1..MaxWorkers
MediaIds == 1..NumIds
Starts == 1..MaxStarts
Models == 1..NumModels
Langs == 1..NumLangs

\* The shutdown sentinel put by stop_worker (None in the source).
None == [media_id |-> 0, seq |-> 0]

VARIABLES
    queue,          \* JobQueue._queue: the FIFO of jobs and sentinels
    running,        \* JobQueue._running
    cancelled_ids,  \* JobQueue._cancelled_ids
    worker_task,    \* JobQueue._worker_task: the latest worker created, 0 if none
    wpc,            \* where each worker loop task is suspended
    wjob,           \* the job each worker loop holds (None if none)
    stop_wait,      \* the task a stop_worker(True) caller awaits, 0 if none
    next_seq,       \* history: the number of the next job enqueued
    cq,             \* history: unfinished jobs whose id was cancelled while
                    \* they were queued
    failed_cb,      \* history: how often on_failure was called for each
                    \* unfinished job
    last_exc        \* history: the job whose processor call raised, if the last
                    \* processor call to end raised (0 otherwise)

qvars == <<queue, running, cancelled_ids, worker_task, wpc, wjob, stop_wait,
           next_seq, cq, failed_cb, last_exc>>

VARIABLES
    boot,           \* the server process: "up" (serving), "down" (dead),
                    \* "reconciled" (lifespan past reconcile_stuck_jobs) or
                    \* "failed" (lifespan raised during startup)
    model,          \* TranscriptionManager._model: 0 (None) or the id of the
                    \* model the loaded WhisperModel was built from
    model_name,     \* TranscriptionManager._model_name
    tc,             \* the transcribe_chunk call on the executor thread
    ev,             \* the preload_model / reload_model call on the event loop
    loads,          \* history: WhisperModel objects built in this process
    reloads         \* history: reload_model calls that dropped the model

mvars == <<model, model_name, tc, ev, loads, reloads>>

VARIABLES
    job_language,   \* TranscriptionJob.language of the job being processed:
                    \* 0 (None) or a language
    lang_log        \* history: for each chunk transcribed in this attempt, the
                    \* language passed to transcribe_chunk and the one returned

lvars == <<job_language, lang_log>>

VARIABLES
    source,         \* MediaFile.source of the media record: "upload" or "youtube"
    file_chunks,    \* the source file on disk: 0 = missing, n = splits into n chunks
    transcript,     \* the committed Transcript row of the media
    segments,       \* the committed TranscriptSegment rows, in insertion order
    stale,          \* started_at (or created_at) is more than the grace window ago
    chunk_files,    \* indices of the chunk_NNNN.wav files in the media's chunk dir
    dl,             \* the background_download task: "idle" or "running"
    twin,           \* status of a second Transcript row of the media, "NONE" if none
    start_req,      \* the start_transcription requests between their read and write
    cancel_req,     \* a cancel_transcription request between its read and its commit
    ppc,            \* the await process_transcription_job is suspended at
    start_chunk,    \* pipeline local: last_processed_chunk as loaded
    chunks,         \* pipeline local: the list returned by split_audio
    idx,            \* pipeline local: chunk.index of the loop
    all_segments_text, \* pipeline local
    tx_log,         \* history: chunk indices handed to inference in this attempt
    sess,           \* pipeline local: the row as its session last read or wrote it
    ended,          \* history: the job whose attempt ended last, and how
    cancel_during,  \* history: a cancel request acted while this job was processed
    cancel_in_chunk \* history: a cancel request and the current inference call

dbvars == <<source, boot, mvars, lvars, file_chunks, transcript, segments, stale,
            chunk_files>>
plocals == <<sess, start_chunk, chunks, idx, all_segments_text, tx_log>>
avars == <<dbvars, twin, dl, start_req, cancel_req, ppc, plocals, ended,
           cancel_during, cancel_in_chunk>>
vars == <<qvars, avars>>

\* ---------------------------------------------------------- JobQueue class

JobsIn(q) == {q[i] : i \in 1..Len(q)}

\* is_cancelled(media_id)
is_cancelled(canc, m) == m \in canc

\* clear_cancelled(media_id)
clear_cancelled(canc, m) == canc \ {m}

\* _worker_loop after queue.get() has returned the head of q: the sentinel
\* ends the loop, a pre-cancelled job goes to the failure callback (lifespan
\* installs one before the worker starts), any other job to the processor.
\* pc is where the worker is suspended next.
Dequeue(q, canc) ==
    LET job == Head(q) IN
    IF job = None
    THEN [q |-> Tail(q), pc |-> "done", job |-> None, canc |-> canc]
    ELSE IF is_cancelled(canc, job.media_id)
    THEN [q |-> Tail(q), pc |-> "skip", job |-> job, canc |-> canc]
    ELSE [q |-> Tail(q), pc |-> "proc", job |-> job, canc |-> canc]

\* _worker_loop from the top of the while loop, as far as it runs without
\* being suspended: queue.get() on a non-empty queue does not yield.
LoopHead(run, q, canc) ==
    IF ~run THEN [q |-> q, pc |-> "done", job |-> None, canc |-> canc]
    ELSE IF q = <<>> THEN [q |-> q, pc |-> "get", job |-> None, canc |-> canc]
    ELSE Dequeue(q, canc)

\* A worker whose processor call ends the loop when it raised.
ProcessorOutcomeFatal(raised, run, q, canc) ==
    IF raised THEN [q |-> q, pc |-> "done", job |-> None, canc |-> canc]
    ELSE LoopHead(run, q, canc)

\* _worker_loop after `await self._processor(job)`: an Exception is caught
\* and logged, the finally block has run (canc is the set it left), and the
\* loop goes back to its head.
ProcessorOutcome(raised, run, q, canc) == LoopHead(run, q, canc)

\* The worker w goes on as nx says (nx from LoopHead or Dequeue); the job it
\* held until now is finished and leaves the histories.
Continue(w, nx) ==
    /\ queue' = nx.q
    /\ cancelled_ids' = nx.canc
    /\ wpc' = [wpc EXCEPT ![w] = nx.pc]
    /\ wjob' = [wjob EXCEPT ![w] = nx.job]
    /\ cq' = cq \ {wjob[w].seq}
    /\ failed_cb' = [s \in 1..MaxJobs |->
                        IF s = wjob[w].seq THEN 0
                        ELSE IF nx.pc = "skip" /\ s = nx.job.seq THEN failed_cb[s] + 1
                        ELSE failed_cb[s]]

\* enqueue(job)
Enqueue(m) ==
    /\ Len(queue) < MaxQueue
    /\ next_seq <= MaxJobs
    /\ queue' = Append(queue, [media_id |-> m, seq |-> next_seq])
    /\ next_seq' = next_seq + 1
    /\ UNCHANGED <<running, cancelled_ids, worker_task, wpc, wjob, stop_wait,
                   cq, failed_cb, last_exc>>

\* cancel_job(media_id)
CancelJob(m) ==
    /\ cancelled_ids' = cancelled_ids \cup {m}
    /\ cq' = cq \cup {j.seq : j \in {k \in JobsIn(queue) : k.media_id = m}}
    /\ UNCHANGED <<queue, running, worker_task, wpc, wjob, stop_wait,
                   next_seq, failed_cb, last_exc>>

\* start_worker(): a no-op when _running, else a new worker loop task.
StartWorker ==
    /\ IF running
       THEN UNCHANGED <<running, worker_task, wpc>>
       ELSE /\ worker_task < MaxWorkers
            /\ running' = TRUE
            /\ worker_task' = worker_task + 1
            /\ wpc' = [wpc EXCEPT ![worker_task + 1] = "start"]
    /\ UNCHANGED <<queue, cancelled_ids, wjob, stop_wait, next_seq, cq,
                   failed_cb, last_exc>>

\* stop_worker(wait_for_current): clears _running; with wait_for_current and
\* a worker task it puts the sentinel and awaits that task.
StopWorker(wait) ==
    /\ stop_wait = 0
    /\ running' = FALSE
    /\ IF wait /\ worker_task # 0
       THEN /\ Len(queue) < MaxQueue
            /\ queue' = Append(queue, None)
            /\ stop_wait' = worker_task
       ELSE UNCHANGED <<queue, stop_wait>>
    /\ UNCHANGED <<cancelled_ids, worker_task, wpc, wjob, next_seq, cq,
                   failed_cb, last_exc>>

\* stop_worker resumes once the awaited worker task has finished.
StopReturn ==
    /\ stop_wait # 0
    /\ wpc[stop_wait] = "done"
    /\ stop_wait' = 0
    /\ UNCHANGED <<queue, running, cancelled_ids, worker_task, wpc, wjob,
                   next_seq, cq, failed_cb, last_exc>>

\* The task created by start_worker runs for the first time.
WorkerBegin(w) ==
    /\ wpc[w] = "start"
    /\ Continue(w, LoopHead(running, queue, cancelled_ids))
    /\ UNCHANGED <<running, worker_task, stop_wait, next_seq, last_exc>>

\* A worker suspended in queue.get() is handed the head of the queue.
WorkerWake(w) ==
    /\ wpc[w] = "get"
    /\ queue # <<>>
    /\ Continue(w, Dequeue(queue, cancelled_ids))
    /\ UNCHANGED <<running, worker_task, stop_wait, next_seq, last_exc>>

\* The processor returns or raises: either way the finally block clears the
\* job's cancellation flag and the loop goes on.
ProcessorEnds(w) ==
    /\ wpc[w] = "proc"
    /\ \E raised \in BOOLEAN :
         /\ Continue(w, ProcessorOutcome(raised, running, queue,
                         clear_cancelled(cancelled_ids, wjob[w].media_id)))
         /\ last_exc' = IF raised THEN wjob[w].seq ELSE 0
    /\ UNCHANGED <<running, worker_task, stop_wait, next_seq>>

\* The failure callback of a skipped job returns: the flag is cleared.  When
\* it raises, the outer handler logs and the loop goes on with the flag set.
FailureEnds(w) ==
    /\ wpc[w] = "skip"
    /\ \E raised \in BOOLEAN :
         Continue(w, LoopHead(running, queue,
                              IF raised THEN cancelled_ids
                              ELSE clear_cancelled(cancelled_ids, wjob[w].media_id)))
    /\ UNCHANGED <<running, worker_task, stop_wait, next_seq, last_exc>>

\* ------------------------------------------------ the application's state

Null == 0 - 1
NullText == <<Null>>

\* Transcript(...) column defaults (models/transcript.py); no row yet.
NoTranscript ==
    [exists |-> FALSE, status |-> "NONE", last_processed_chunk |-> 0,
     total_chunks |-> Null, error_message |-> "none", full_text |-> NullText]

\* Transcript(media_id=..., status=s) as inserted by the endpoints.
NewTranscript(s) == [NoTranscript EXCEPT !.exists = TRUE, !.status = s]

RECURSIVE SortedSeq(_)
\* sorted(glob("chunk_*.wav")): the files in index order
SortedSeq(S) ==
    IF S = {} THEN <<>>
    ELSE LET m == CHOOSE x \in S : \A y \in S : x <= y
         IN <<m>> \o SortedSeq(S \ {m})

\* select(TranscriptSegment) ... order_by(start_time): a segment of chunk c
\* starts at c * chunk_duration plus its offset inside the chunk.
ByStartTime(segs) == SortSeq(segs, LAMBDA a, b : a < b)

\* transcribe_chunk on the chunk file c: the segments it returns, each
\* identified by the chunk file whose audio it transcribes.
SegmentsOf(c) == <<c>>

\* What handle_job_failure builds its error_message from:
\* f"Job Interrupted: {error}", error being str(e) of the exception.
FailureMessageParts == {"exception_text"}

\* handle_job_failure: the row, when there is one, becomes FAILED.
MarkFailed(t, msg) ==
    IF t.exists THEN [t EXCEPT !.status = "FAILED", !.error_message = msg] ELSE t

\* session.commit(): the UPDATE sets the columns whose value the session
\* changed since it loaded, refreshed or last committed the row (snap); the
\* other columns of the committed row (db) stay as they are.
Flush(db, snap, new) ==
    [f \in DOMAIN db |-> IF new[f] # snap[f] THEN new[f] ELSE db[f]]

\* The status test of the cancellation checks, were FAILED (what the cancel
\* endpoint writes) taken for a cancellation too.
IsStoppedStatus(s) == s \in {"CANCELED", "FAILED"}

\* The status test of the two cancellation checks around the inference call.
IsCanceledStatus(s) == s = "CANCELED"

\* The checkpoint written after chunk i, were it the chunk's own index.
CheckpointBefore(i) == i

\* The checkpoint written after chunk i: chunk.index + 1.
Checkpoint(i) == i + 1

\* The skip test of the chunk loop, were no chunk ever skipped.
NeverProcessed(i, sc) == FALSE

\* The skip test of the chunk loop: chunk.index < start_chunk.
AlreadyProcessed(i, sc) == i < sc

\* The requests and downloads under way that will still enqueue a job.
PendingEnqueues ==
    Cardinality({r \in Starts : start_req[r].pc # "idle"})
        + (IF dl = "running" THEN 1 ELSE 0)

Locals(se, sc, ch, i, ast, txl) ==
    /\ sess' = se
    /\ start_chunk' = sc
    /\ chunks' = ch
    /\ idx' = i
    /\ all_segments_text' = ast
    /\ tx_log' = txl

\* The worker of the application goes on as nx says; a job handed to the
\* processor runs process_transcription_job up to its first query.
WorkerGoes(nx) ==
    /\ Continue(1, nx)
    /\ ppc' = IF nx.pc = "proc" THEN "load" ELSE "idle"
    /\ Locals(NoTranscript, 0, <<>>, 0, <<>>, <<>>)
    /\ cancel_during' = FALSE
    /\ cancel_in_chunk' = "no"
    /\ UNCHANGED <<running, worker_task, stop_wait, next_seq, last_exc>>

\* process_transcription_job returns (or its exception has been handled):
\* the worker's finally block, then the loop head.
ProcessorReturns(how) ==
    /\ WorkerGoes(LoopHead(running, queue,
                           clear_cancelled(cancelled_ids, wjob[1].media_id)))
    /\ ended' = [seq |-> wjob[1].seq, how |-> how]

\* The pipeline stays in its job, suspended at the await pc.
PipelineGoes(pc, se, sc, ch, i, ast, txl) ==
    /\ ppc' = pc
    /\ Locals(se, sc, ch, i, ast, txl)
    /\ UNCHANGED <<qvars, ended, cancel_during>>

RECURSIVE ChunkLoop(_, _, _, _, _)
\* "for chunk in chunks" from index i, as far as it runs unsuspended: the
\* cancellation flag is tested first, processed chunks are skipped, and the
\* first chunk to process suspends the loop at the status refresh.
ChunkLoop(i, n, sc, canc, m) ==
    IF i >= n THEN [to |-> "commitF", idx |-> i]
    ELSE IF is_cancelled(canc, m) THEN [to |-> "return", idx |-> i]
    ELSE IF AlreadyProcessed(i, sc) THEN ChunkLoop(i + 1, n, sc, canc, m)
    ELSE [to |-> "refresh1", idx |-> i]

\* The pipeline enters or re-enters the chunk loop at index i.
LoopGoes(i, se, sc, ch, ast, txl) ==
    LET lp == ChunkLoop(i, Len(ch), sc, cancelled_ids, wjob[1].media_id) IN
    IF lp.to = "return"
    THEN ProcessorReturns("cancelled")
    ELSE /\ PipelineGoes(lp.to, se, sc, ch, lp.idx, ast, txl)
         /\ cancel_in_chunk' = "no"

\* ------------------------------------------- process_transcription_job

\* The transcript and media queries return.  No row: log and return.  No
\* source file: FileNotFoundError; two rows: MultipleResultsFound.  Else the
\* session's row becomes PROCESSING
\* and split_audio is sent to the executor.
PipelineLoad ==
    /\ wpc[1] = "proc" /\ ppc = "load"
    /\ IF ~transcript.exists
       THEN ProcessorReturns("missing")
       ELSE /\ PipelineGoes(IF file_chunks = 0 \/ twin # "NONE" THEN "fail"
                            ELSE "split",
                            transcript, 0, <<>>, 0, <<>>, <<>>)
            /\ UNCHANGED cancel_in_chunk
    /\ UNCHANGED <<dbvars, dl, start_req, twin, cancel_req>>

\* split_audio returns or raises.  A missing source raises before anything
\* is written; a transcoder failure may leave the files written so far; on
\* success every chunk_*.wav in the directory is listed, index i at place i.
\* Then total_chunks is set and the commit is sent.
PipelineSplit ==
    /\ wpc[1] = "proc" /\ ppc = "split"
    /\ IF file_chunks = 0
       THEN /\ PipelineGoes("fail", sess, 0, <<>>, 0, <<>>, <<>>)
            /\ UNCHANGED chunk_files
       ELSE \E ok \in BOOLEAN : \E k \in 0..file_chunks :
              /\ ok => k = file_chunks
              /\ chunk_files' = chunk_files \cup 0..(k - 1)
              /\ PipelineGoes(IF ok THEN "commit0" ELSE "fail", sess, 0,
                              IF ok THEN SortedSeq(chunk_files') ELSE <<>>,
                              0, <<>>, <<>>)
    /\ UNCHANGED <<source, boot, mvars, lvars, file_chunks, transcript, segments, stale, dl,
                   start_req, twin, cancel_req, cancel_in_chunk>>

\* The commit of status PROCESSING, started_at and total_chunks lands; then
\* start_chunk is taken and, on a resume, the segment query is sent.
PipelineCommitTotal ==
    /\ wpc[1] = "proc" /\ ppc = "commit0"
    /\ LET new == [sess EXCEPT !.status = "PROCESSING",
                               !.total_chunks = Len(chunks)]
           sc == sess.last_processed_chunk
       IN /\ transcript' = Flush(transcript, sess, new)
          /\ stale' = FALSE
          /\ IF sc > 0
             THEN /\ PipelineGoes("loadsegs", new, sc, chunks, 0, <<>>, <<>>)
                  /\ UNCHANGED cancel_in_chunk
             ELSE LoopGoes(0, new, sc, chunks, <<>>, <<>>)
    /\ UNCHANGED <<source, boot, mvars, lvars, file_chunks, segments, chunk_files, dl, start_req, twin,
                   cancel_req>>

\* The query of the persisted segments returns; their texts are preloaded.
PipelineLoadSegments ==
    /\ wpc[1] = "proc" /\ ppc = "loadsegs"
    /\ LoopGoes(0, sess, start_chunk, chunks, ByStartTime(segments), <<>>)
    /\ UNCHANGED <<dbvars, dl, start_req, twin, cancel_req>>

\* The refresh before the chunk returns: a CANCELED row ends the job with
\* the chunk directory removed; else the chunk is sent to inference.
PipelineRefresh1 ==
    /\ wpc[1] = "proc" /\ ppc = "refresh1"
    /\ IF IsCanceledStatus(transcript.status)
       THEN /\ chunk_files' = {}
            /\ ProcessorReturns("canceled")
       ELSE /\ PipelineGoes("transcribe", transcript, start_chunk, chunks, idx,
                            all_segments_text, tx_log)
            /\ UNCHANGED <<chunk_files, cancel_in_chunk>>
    /\ UNCHANGED <<source, boot, mvars, lvars, file_chunks, transcript, segments, stale, dl,
                   start_req, twin, cancel_req>>

\* transcribe_chunk returns or raises (chunk file missing, model or
\* inference failure); then the refresh after the chunk is sent.
PipelineTranscribe ==
    /\ wpc[1] = "proc" /\ ppc = "transcribe"
    /\ \E ok \in BOOLEAN :
         /\ ok => chunks[idx + 1] \in chunk_files
         /\ PipelineGoes(IF ok THEN "refresh2" ELSE "fail", sess, start_chunk,
                         chunks, idx, all_segments_text,
                         IF ok THEN Append(tx_log, idx) ELSE tx_log)
    /\ UNCHANGED <<dbvars, dl, start_req, twin, cancel_req, cancel_in_chunk>>

\* The refresh after the chunk returns: a CANCELED row ends the job with the
\* chunk directory removed; else the segments are added, the checkpoint is
\* set and the commit is sent.
PipelineRefresh2 ==
    /\ wpc[1] = "proc" /\ ppc = "refresh2"
    /\ IF IsCanceledStatus(transcript.status)
       THEN /\ chunk_files' = {}
            /\ ProcessorReturns("canceled")
       ELSE /\ PipelineGoes("commitC", transcript, start_chunk, chunks, idx,
                            all_segments_text \o SegmentsOf(chunks[idx + 1]),
                            tx_log)
            /\ UNCHANGED <<chunk_files, cancel_in_chunk>>
    /\ UNCHANGED <<source, boot, mvars, lvars, file_chunks, transcript, segments, stale, dl,
                   start_req, twin, cancel_req>>

\* The checkpoint commit lands: the chunk's segments and
\* last_processed_chunk = index + 1.  Then the loop goes to the next chunk.
PipelineCommitChunk ==
    /\ wpc[1] = "proc" /\ ppc = "commitC"
    /\ segments' = segments \o SegmentsOf(chunks[idx + 1])
    /\ LET new == [sess EXCEPT !.last_processed_chunk = Checkpoint(idx)]
       IN /\ transcript' = Flush(transcript, sess, new)
          /\ LoopGoes(idx + 1, new, start_chunk, chunks, all_segments_text,
                      tx_log)
    /\ UNCHANGED <<source, boot, mvars, lvars, file_chunks, stale, chunk_files, dl, start_req, twin,
                   cancel_req>>

\* The final commit lands: full_text, COMPLETED, error_message cleared.
\* Then cleanup_chunks, and the processor returns.
PipelineCommitFinal ==
    /\ wpc[1] = "proc" /\ ppc = "commitF"
    /\ transcript' = Flush(transcript, sess,
                           [sess EXCEPT !.status = "COMPLETED",
                                        !.full_text = all_segments_text,
                                        !.error_message = "none"])
    /\ chunk_files' = {}
    /\ ProcessorReturns("completed")
    /\ UNCHANGED <<source, boot, mvars, lvars, file_chunks, segments, stale, dl, start_req, twin,
                   cancel_req>>

\* The except branch: handle_job_failure commits FAILED in a session of its
\* own; the pipeline's uncommitted changes are dropped with its session.
\* With two rows for the media its query raises, which it only logs.
PipelineFail ==
    /\ wpc[1] = "proc" /\ ppc = "fail"
    /\ transcript' = IF twin = "NONE"
                     THEN MarkFailed(transcript, "job_interrupted")
                     ELSE transcript
    /\ ProcessorReturns("failed")
    /\ UNCHANGED <<source, boot, mvars, lvars, file_chunks, segments, stale, chunk_files, dl,
                   start_req, twin, cancel_req>>

\* The failure callback of a job skipped as cancelled while queued.
SkipFailure ==
    /\ wpc[1] = "skip"
    /\ transcript' = IF twin = "NONE"
                     THEN MarkFailed(transcript, "cancelled_before_processing")
                     ELSE transcript
    /\ ProcessorReturns("skipped")
    /\ UNCHANGED <<source, boot, mvars, lvars, file_chunks, segments, stale, chunk_files, dl,
                   start_req, twin, cancel_req>>

\* The worker suspended in queue.get() is handed the head of the queue.
AppWorkerWake ==
    /\ wpc[1] = "get"
    /\ queue # <<>>
    /\ WorkerGoes(Dequeue(queue, cancelled_ids))
    /\ UNCHANGED <<dbvars, dl, start_req, twin, cancel_req, ended>>

\* ------------------------------------------------------------- endpoints

NoRequest == [pc |-> "idle", snap |-> NoTranscript]

\* The conflict test of start_transcription on the row t it read: PENDING or
\* PROCESSING, and started_at (or created_at) within the grace window.
StartConflict(t, old) ==
    t.exists /\ t.status \in {"PENDING", "PROCESSING"} /\ ~old

\* How start_transcription answers a request made now.  A missing file of an
\* upload is NotFound; the query for the media's Transcript raises when there
\* are two rows; a missing YouTube file with a row starts the re-download; a
\* conflicting row is a Conflict; anything else is accepted.
StartOutcome ==
    IF file_chunks = 0 /\ source # "youtube" THEN "not_found"
    ELSE IF twin # "NONE" THEN "error"
    ELSE IF file_chunks = 0 /\ transcript.exists THEN "redownload"
    ELSE IF StartConflict(transcript, stale) THEN "conflict"
    ELSE "accepted"

\* start_transcription when the source file is missing, the media came from
\* YouTube and a Transcript exists: trigger_youtube_redownload marks the row
\* DOWNLOADING and launches background_download; get_db commits.
StartRedownload ==
    /\ StartOutcome = "redownload"
    /\ dl = "idle"
    /\ next_seq + PendingEnqueues <= MaxJobs
    /\ transcript' = [transcript EXCEPT !.status = "DOWNLOADING",
                                        !.error_message = "none"]
    /\ dl' = "running"
    /\ UNCHANGED <<qvars, source, boot, mvars, lvars, file_chunks, segments, stale, chunk_files,
                   start_req, twin, cancel_req, ppc, plocals, ended, cancel_during,
                   cancel_in_chunk>>

\* start_transcription up to the query for the existing Transcript: a missing
\* file is NotFound, a PENDING or PROCESSING row that is not stale is a
\* Conflict, and with two rows for the media the query itself raises (nothing
\* changes); else the request goes on to write.  Requests are anonymous: a
\* new one is request r when r is the lowest number not in use.
StartRead(r) ==
    /\ start_req[r].pc = "idle"
    /\ \A q \in 1..(r - 1) : start_req[q].pc # "idle"
    /\ next_seq + PendingEnqueues <= MaxJobs
    /\ StartOutcome = "accepted"
    /\ start_req' = [start_req EXCEPT ![r] = [pc |-> "write",
                                              snap |-> transcript]]
    /\ UNCHANGED <<qvars, dbvars, twin, dl, cancel_req, ppc, plocals, ended,
                   cancel_during, cancel_in_chunk>>

\* What start_transcription sets on the row it read: PENDING, no error, and
\* for a fresh start (no chunk processed) full_text and total_chunks cleared.
ResetForStart(t) ==
    IF t.last_processed_chunk = 0
    THEN [t EXCEPT !.status = "PENDING", !.error_message = "none",
                   !.full_text = NullText, !.total_chunks = Null]
    ELSE [t EXCEPT !.status = "PENDING", !.error_message = "none"]

\* start_transcription from the reset to the enqueue: the row is reset or
\* created, for a fresh start the segments are deleted, the transaction
\* commits and the job is enqueued.  A request that found no row inserts
\* one, whether or not another request has inserted one since (media_id
\* carries no unique constraint).
StartWrite(r) ==
    /\ start_req[r].pc = "write"
    /\ LET snap == start_req[r].snap IN
       IF snap.exists
       THEN /\ transcript' = Flush(transcript, snap, ResetForStart(snap))
            /\ segments' = IF snap.last_processed_chunk = 0 THEN <<>>
                           ELSE segments
            /\ UNCHANGED <<stale, twin>>
       ELSE IF transcript.exists
       THEN /\ twin' = "PENDING"
            /\ UNCHANGED <<transcript, segments, stale>>
       ELSE /\ transcript' = NewTranscript("PENDING")
            /\ segments' = segments
            /\ stale' = FALSE
            /\ UNCHANGED twin
    /\ start_req' = [start_req EXCEPT ![r] = NoRequest]
    /\ queue' = Append(queue, [media_id |-> 1, seq |-> next_seq])
    /\ next_seq' = next_seq + 1
    /\ UNCHANGED <<running, cancelled_ids, worker_task, wpc, wjob, stop_wait, cq,
                   failed_cb, last_exc, source, boot, mvars, lvars, file_chunks, chunk_files, dl, cancel_req,
                   ppc, plocals, ended, cancel_during, cancel_in_chunk>>

\* How cancel_transcription would answer, were a FAILED row cancellable too.
CancelOutcomeLax(t) ==
    IF ~t.exists THEN "not_found"
    ELSE IF t.status \in {"PENDING", "PROCESSING", "FAILED"} THEN "canceled"
    ELSE "conflict"

\* How cancel_transcription answers a request for the row t.
CancelOutcome(t) ==
    IF ~t.exists THEN "not_found"
    ELSE IF t.status \in {"PENDING", "PROCESSING"} THEN "canceled"
    ELSE "conflict"

\* cancel_transcription up to its commit: for a PENDING or PROCESSING row
\* cancel_job marks the media id and the row is set FAILED in the session.
\* (Any other status is a Conflict and a missing row NotFound: no change.)
CancelRead ==
    /\ cancel_req.pc = "idle"
    /\ CancelOutcome(transcript) = "canceled"
    /\ cancelled_ids' = cancelled_ids \cup {1}
    /\ cq' = cq \cup {j.seq : j \in {k \in JobsIn(queue) : k.media_id = 1}}
    /\ cancel_req' = [pc |-> "commit", snap |-> transcript]
    /\ cancel_during' = (cancel_during \/ wpc[1] = "proc")
    /\ cancel_in_chunk' = IF ppc = "transcribe" THEN "requested"
                          ELSE cancel_in_chunk
    /\ UNCHANGED <<queue, running, worker_task, wpc, wjob, stop_wait, next_seq,
                   failed_cb, last_exc, dbvars, dl, start_req, twin, ppc, plocals, ended>>

\* The commit of cancel_transcription lands.
CancelCommit ==
    /\ cancel_req.pc = "commit"
    /\ transcript' = Flush(transcript, cancel_req.snap,
                           [cancel_req.snap EXCEPT
                               !.status = "FAILED",
                               !.error_message = "canceled_by_user"])
    /\ cancel_req' = NoRequest
    /\ cancel_in_chunk' = IF ppc = "transcribe" /\ cancel_in_chunk = "requested"
                          THEN "committed" ELSE cancel_in_chunk
    /\ UNCHANGED <<qvars, source, boot, mvars, lvars, file_chunks, segments, stale, chunk_files, dl,
                   start_req, twin, ppc, plocals, ended, cancel_during>>

\* cancel_transcription on the second row of the media while it is PENDING
\* (it is never PROCESSING: no job gets past the media's query once it
\* exists): the media id is marked and the row becomes FAILED.
CancelTwin ==
    /\ twin = "PENDING"
    /\ twin' = "FAILED"
    /\ cancelled_ids' = cancelled_ids \cup {1}
    /\ cq' = cq \cup {j.seq : j \in {k \in JobsIn(queue) : k.media_id = 1}}
    /\ cancel_during' = (cancel_during \/ wpc[1] = "proc")
    /\ UNCHANGED <<queue, running, worker_task, wpc, wjob, stop_wait, next_seq,
                   failed_cb, last_exc, dbvars, dl, start_req, cancel_req, ppc, plocals,
                   ended, cancel_in_chunk>>

\* background_download succeeds: the file is on disk (a source of n chunks),
\* the row becomes PENDING and the job is enqueued.
DownloadSucceed(n) ==
    /\ dl = "running"
    /\ file_chunks' = n
    /\ transcript' = IF transcript.exists
                     THEN [transcript EXCEPT !.status = "PENDING",
                                             !.error_message = "none"]
                     ELSE transcript
    /\ dl' = "idle"
    /\ queue' = Append(queue, [media_id |-> 1, seq |-> next_seq])
    /\ next_seq' = next_seq + 1
    /\ UNCHANGED <<running, cancelled_ids, worker_task, wpc, wjob, stop_wait, cq,
                   failed_cb, last_exc, source, boot, mvars, lvars, segments, stale, chunk_files, start_req, twin,
                   cancel_req, ppc, plocals, ended, cancel_during,
                   cancel_in_chunk>>

\* background_download fails: the row becomes FAILED.
DownloadFail ==
    /\ dl = "running"
    /\ transcript' = MarkFailed(transcript, "download_failed")
    /\ dl' = "idle"
    /\ UNCHANGED <<qvars, source, boot, mvars, lvars, file_chunks, segments, stale, chunk_files,
                   start_req, twin, cancel_req, ppc, plocals, ended, cancel_during,
                   cancel_in_chunk>>

\* ------------------------------------------------------------ environment

\* The source file disappears from disk (the case start_transcription's
\* "Smart Retry" and the pipeline's existence test are written for).
SourceFileLost ==
    /\ file_chunks > 0
    /\ file_chunks' = 0
    /\ UNCHANGED <<qvars, source, boot, mvars, lvars, transcript, segments, stale, chunk_files, dl,
                   start_req, twin, cancel_req, ppc, plocals, ended, cancel_during,
                   cancel_in_chunk>>

\* More than the grace window passes since started_at (or created_at).
GraceWindowPasses ==
    /\ transcript.exists
    /\ ~stale
    /\ stale' = TRUE
    /\ UNCHANGED <<qvars, source, boot, mvars, lvars, file_chunks, transcript, segments, chunk_files,
                   dl, start_req, twin, cancel_req, ppc, plocals, ended, cancel_during,
                   cancel_in_chunk>>

\* --------------------------------------------------------- specifications

\* No call of the TranscriptionManager is under way.
NoCall == [pc |-> "idle", name |-> 0]

\* The TranscriptionManager singleton of a process that has loaded the model
\* named in the settings, model 1 (lifespan's preload_model).
MPreloaded ==
    /\ model_name = 1
    /\ model = model_name
    /\ tc = NoCall
    /\ ev = NoCall
    /\ loads = 1
    /\ reloads = 0

\* The pipeline and request state while nothing is under way.
AIdle ==
    /\ segments = <<>>
    /\ stale = FALSE
    /\ chunk_files = {}
    /\ start_req = [r \in Starts |-> NoRequest]
    /\ twin = "NONE"
    /\ cancel_req = NoRequest
    /\ ppc = "idle"
    /\ sess = NoTranscript
    /\ start_chunk = 0
    /\ chunks = <<>>
    /\ idx = 0
    /\ all_segments_text = <<>>
    /\ tx_log = <<>>
    /\ ended = [seq |-> 0, how |-> "none"]
    /\ cancel_during = FALSE
    /\ cancel_in_chunk = "no"
    /\ job_language = 0
    /\ lang_log = <<>>

\* The application after lifespan's startup, with one media record: either
\* an upload whose file is on disk and has no Transcript yet, or a YouTube
\* URL just submitted with auto_transcribe (row DOWNLOADING, download
\* running).
Init ==
    /\ queue = <<>>
    /\ running = TRUE
    /\ cancelled_ids = {}
    /\ worker_task = 1
    /\ wpc = [w \in Workers |-> IF w = 1 THEN "get" ELSE "unborn"]
    /\ wjob = [w \in Workers |-> None]
    /\ stop_wait = 0
    /\ next_seq = 1
    /\ cq = {}
    /\ failed_cb = [s \in 1..MaxJobs |-> 0]
    /\ last_exc = 0
    /\ AIdle
    /\ boot = "up"
    /\ MPreloaded
    /\ \/ /\ source = "upload"
          /\ file_chunks \in 1..MaxChunks
          /\ transcript = NoTranscript
          /\ dl = "idle"
       \/ /\ source = "youtube"
          /\ file_chunks = 0
          /\ transcript = NewTranscript("DOWNLOADING")
          /\ dl = "running"

Next ==
    \/ StartRedownload
    \/ \E r \in Starts : StartRead(r)
    \/ \E r \in Starts : StartWrite(r)
    \/ CancelTwin
    \/ CancelRead
    \/ CancelCommit
    \/ \E n \in 1..MaxChunks : DownloadSucceed(n)
    \/ DownloadFail
    \/ SourceFileLost
    \/ GraceWindowPasses
    \/ AppWorkerWake
    \/ SkipFailure
    \/ PipelineLoad
    \/ PipelineSplit
    \/ PipelineCommitTotal
    \/ PipelineLoadSegments
    \/ PipelineRefresh1
    \/ PipelineTranscribe
    \/ PipelineRefresh2
    \/ PipelineCommitChunk
    \/ PipelineCommitFinal
    \/ PipelineFail

Spec == Init /\ [][Next]_vars

\* ------------------------------------------------- crash and restart

\* reconcile_stuck_jobs on a status, were only PROCESSING rows recovered.
ReconcileProcessingOnly(st) == IF st = "PROCESSING" THEN "FAILED" ELSE st

\* reconcile_stuck_jobs on a status: PROCESSING and PENDING rows become
\* FAILED, any other row is not selected.
ReconcileStatus(st) == IF st \in {"PROCESSING", "PENDING"} THEN "FAILED" ELSE st

\* The message reconcile_stuck_jobs writes on a row of status st.
ReconcileMessage(st, msg) ==
    IF st = "PROCESSING" THEN "interrupted_during"
    ELSE IF st = "PENDING" THEN "interrupted_before"
    ELSE msg

\* The server process dies (kill, power loss, or exit after a failed
\* startup): everything in memory is gone, requests and downloads under way
\* included; the database, the source file, the chunk files and the saved
\* settings stay.
Crash ==
    /\ boot \in {"up", "failed"}
    /\ boot' = "down"
    /\ queue' = <<>>
    /\ running' = FALSE
    /\ cancelled_ids' = {}
    /\ worker_task' = 0
    /\ wpc' = [w \in Workers |-> "unborn"]
    /\ wjob' = [w \in Workers |-> None]
    /\ stop_wait' = 0
    /\ cq' = {}
    /\ failed_cb' = [s \in 1..MaxJobs |-> 0]
    /\ last_exc' = 0
    /\ model' = 0
    /\ tc' = NoCall
    /\ ev' = NoCall
    /\ loads' = 0
    /\ reloads' = 0
    /\ dl' = "idle"
    /\ start_req' = [r \in Starts |-> NoRequest]
    /\ cancel_req' = NoRequest
    /\ ppc' = "idle"
    /\ Locals(NoTranscript, 0, <<>>, 0, <<>>, <<>>)
    /\ ended' = [seq |-> 0, how |-> "none"]
    /\ cancel_during' = FALSE
    /\ cancel_in_chunk' = "no"
    /\ job_language' = 0
    /\ lang_log' = <<>>
    /\ UNCHANGED <<next_seq, model_name, source, file_chunks, transcript,
                   segments, stale, chunk_files, twin>>

\* lifespan from its start to the return of reconcile_stuck_jobs: the rows
\* selected as PROCESSING and as PENDING are set FAILED and committed.
Reconcile ==
    /\ boot = "down"
    /\ boot' = "reconciled"
    /\ transcript' =
          IF transcript.exists
          THEN [transcript EXCEPT
                   !.status = ReconcileStatus(@),
                   !.error_message = ReconcileMessage(transcript.status, @)]
          ELSE transcript
    /\ twin' = ReconcileStatus(twin)
    /\ UNCHANGED <<qvars, mvars, lvars, source, file_chunks, segments, stale,
                   chunk_files, dl, start_req, cancel_req, ppc, plocals, ended,
                   cancel_during, cancel_in_chunk>>

\* lifespan after reconcile_stuck_jobs: start_worker creates the worker task,
\* then preload_model loads the model on the event loop.  When the load
\* raises, the exception leaves lifespan and the startup fails.
LifespanReady ==
    /\ boot = "reconciled"
    /\ running' = TRUE
    /\ worker_task' = 1
    /\ wpc' = [wpc EXCEPT ![1] = "start"]
    /\ \E ok \in BOOLEAN :
         IF ok
         THEN /\ model' = model_name
              /\ loads' = loads + 1
              /\ boot' = "up"
         ELSE /\ boot' = "failed"
              /\ UNCHANGED <<model, loads>>
    /\ UNCHANGED <<queue, cancelled_ids, wjob, stop_wait, next_seq, cq,
                   failed_cb, last_exc, model_name, tc, ev, reloads, lvars,
                   source,
                   file_chunks, transcript, segments, stale, chunk_files, twin,
                   dl, start_req, cancel_req, ppc, plocals, ended,
                   cancel_during, cancel_in_chunk>>

\* The worker task created by lifespan runs for the first time.
AppWorkerBegin ==
    /\ boot = "up"
    /\ wpc[1] = "start"
    /\ WorkerGoes(LoopHead(running, queue, cancelled_ids))
    /\ UNCHANGED <<dbvars, dl, start_req, twin, cancel_req, ended>>

\* The application over crashes and restarts of the server process.
RNext ==
    \/ boot = "up" /\ Next
    \/ boot # "up" /\ SourceFileLost
    \/ boot # "up" /\ GraceWindowPasses
    \/ Crash
    \/ Reconcile
    \/ LifespanReady
    \/ AppWorkerBegin

RestartSpec == Init /\ [][RNext]_vars

\* The JobQueue class alone, driven by an arbitrary client.
QInit ==
    /\ queue = <<>>
    /\ running = FALSE
    /\ cancelled_ids = {}
    /\ worker_task = 0
    /\ wpc = [w \in Workers |-> "unborn"]
    /\ wjob = [w \in Workers |-> None]
    /\ stop_wait = 0
    /\ next_seq = 1
    /\ cq = {}
    /\ failed_cb = [s \in 1..MaxJobs |-> 0]
    /\ last_exc = 0
    /\ AIdle
    /\ boot = "up"
    /\ MPreloaded
    /\ source = "upload"
    /\ file_chunks = 0
    /\ transcript = NoTranscript
    /\ dl = "idle"

QNext ==
    \/ \E m \in MediaIds : Enqueue(m) /\ UNCHANGED avars
    \/ \E m \in MediaIds : CancelJob(m) /\ UNCHANGED avars
    \/ StartWorker /\ UNCHANGED avars
    \/ \E wait \in BOOLEAN : StopWorker(wait) /\ UNCHANGED avars
    \/ StopReturn /\ UNCHANGED avars
    \/ \E w \in Workers : WorkerBegin(w) /\ UNCHANGED avars
    \/ \E w \in Workers : WorkerWake(w) /\ UNCHANGED avars
    \/ \E w \in Workers : ProcessorEnds(w) /\ UNCHANGED avars
    \/ \E w \in Workers : FailureEnds(w) /\ UNCHANGED avars

QueueSpec == QInit /\ [][QNext]_vars

\* ---------------------------------------------------------- delete_media

\* DELETE /api/media/{media_id}: cancel_job and cleanup_chunks come first.
\* For an upload the file is unlinked and the media record is deleted, its
\* Transcript rows and segments with it.  For any other source the branch
\* that unlinks the file uses a name the module never defines: the request
\* ends with that error and the record stays.
DeleteMedia ==
    /\ source \in {"upload", "youtube"}
    /\ cancelled_ids' = cancelled_ids \cup {1}
    /\ cq' = cq \cup {j.seq : j \in {k \in JobsIn(queue) : k.media_id = 1}}
    /\ cancel_during' = (cancel_during \/ wpc[1] = "proc")
    /\ cancel_in_chunk' = IF ppc = "transcribe" THEN "requested"
                          ELSE cancel_in_chunk
    /\ chunk_files' = {}
    /\ IF source = "upload"
       THEN /\ source' = "deleted"
            /\ file_chunks' = 0
            /\ transcript' = NoTranscript
            /\ segments' = <<>>
            /\ twin' = "NONE"
       ELSE UNCHANGED <<source, file_chunks, transcript, segments, twin>>
    /\ UNCHANGED <<queue, running, worker_task, wpc, wjob, stop_wait, next_seq,
                   failed_cb, last_exc, boot, mvars, lvars, stale, dl, start_req,
                   cancel_req, ppc, plocals, ended>>

\* The application with the delete endpoint, followed up to the deletion of
\* the media record.
DNext ==
    \/ source # "deleted" /\ Next
    \/ DeleteMedia

DeleteSpec == Init /\ [][DNext]_vars

\* ------------------------------------------------------ the language hint

\* Everything but the language of the job being processed.
nonlvars == <<qvars, source, boot, mvars, file_chunks, transcript, segments,
              stale, chunk_files, twin, dl, start_req, cancel_req, ppc,
              plocals, ended, cancel_during, cancel_in_chunk>>

ReplaceByDetected(lang, detected) == detected

\* After a chunk: job.language takes the detected language when it was not
\* set (None or empty) and a language was detected.
LockLanguage(lang, detected) ==
    IF lang = 0 /\ detected # 0 THEN detected ELSE lang

\* The worker hands a job to process_transcription_job: a TranscriptionJob
\* built with or without a language.
LJobStarts(pin) ==
    /\ job_language' = pin
    /\ lang_log' = <<>>
    /\ UNCHANGED nonlvars

\* One chunk of the loop: transcribe_chunk is called with language =
\* job.language and returns the language it worked with; then the language
\* is locked.
LChunk(detected) ==
    /\ Len(lang_log) < MaxHints
    /\ lang_log' = Append(lang_log, [passed |-> job_language,
                                     detected |-> detected])
    /\ job_language' = LockLanguage(job_language, detected)
    /\ UNCHANGED nonlvars

LNext ==
    \/ \E pin \in {0} \cup Langs : LJobStarts(pin)
    \/ \E d \in Langs : LChunk(d)

\* The language handling of the transcription loop alone.
LanguageSpec == QInit /\ [][LNext]_vars

\* ------------------------------------------------ the TranscriptionManager

\* Everything but the TranscriptionManager's state and the server process.
nonmvars == <<queue, cancelled_ids, wjob, stop_wait, next_seq, cq, failed_cb,
              last_exc, lvars, source, file_chunks, transcript, segments, stale,
              chunk_files, twin, dl, start_req, cancel_req, ppc, plocals,
              ended, cancel_during, cancel_in_chunk>>

AlwaysLoad(m) == TRUE

\* _load_model returns at once when a model is loaded.
NeedsLoad(m) == m = 0

\* reload_model's guard: nothing to do when the name is the requested one and
\* a model is loaded.
ReloadOutcome(m, mdl, nm) == IF nm = m /\ mdl # 0 THEN "noop" ELSE "reload"

\* transcribe_chunk starts on the executor thread: _load_model looks at
\* _model and either returns or begins to build a WhisperModel from the
\* _model_name it reads.
TcCall ==
    /\ boot = "up"
    /\ tc = NoCall
    /\ IF NeedsLoad(model)
       THEN tc' = [pc |-> "load", name |-> model_name]
       ELSE tc' = [pc |-> "ready", name |-> 0]
    /\ UNCHANGED <<boot, model, model_name, ev, loads, reloads, running,
                   worker_task, wpc, nonmvars>>

\* The WhisperModel of the executor thread is built (on CUDA from the name
\* read first, or by the CPU fallback from the name read then) and stored in
\* _model, or its construction raises and transcribe_chunk raises.
TcLoaded ==
    /\ tc.pc = "load"
    /\ \E ok \in BOOLEAN :
         IF ok
         THEN \E nm \in {tc.name, model_name} :
                /\ model' = nm
                /\ loads' = loads + 1
                /\ tc' = [pc |-> "ready", name |-> nm]
         ELSE /\ tc' = NoCall
              /\ UNCHANGED <<model, loads>>
    /\ UNCHANGED <<boot, model_name, ev, reloads, running, worker_task, wpc,
                   nonmvars>>

\* transcribe_chunk past _load_model: the chunk is transcribed by whatever
\* _model holds now (None raises AttributeError) and the call returns.
TcInfer ==
    /\ tc.pc = "ready"
    /\ tc' = NoCall
    /\ UNCHANGED <<boot, model, model_name, ev, loads, reloads, running,
                   worker_task, wpc, nonmvars>>

\* update_config calls reload_model(m) on the event loop: a no-op, or the
\* model is dropped (_model = None).
EvReload(m) ==
    /\ boot = "up"
    /\ ev = NoCall
    /\ IF ReloadOutcome(m, model, model_name) = "noop"
       THEN UNCHANGED <<model, ev, reloads>>
       ELSE /\ reloads < MaxReloads
            /\ model' = 0
            /\ ev' = [pc |-> "dropped", name |-> m]
            /\ reloads' = reloads + 1
    /\ UNCHANGED <<boot, model_name, tc, loads, running, worker_task, wpc,
                   nonmvars>>

\* reload_model sets _model_name and calls _load_model, which returns at once
\* when the executor thread has stored a model in the meantime.
EvReloadName ==
    /\ ev.pc = "dropped"
    /\ model_name' = ev.name
    /\ IF NeedsLoad(model)
       THEN ev' = [ev EXCEPT !.pc = "load"]
       ELSE ev' = NoCall
    /\ UNCHANGED <<boot, model, tc, loads, reloads, running, worker_task, wpc,
                   nonmvars>>

\* The WhisperModel of reload_model is built and stored, or its construction
\* raises and update_config answers with a ProcessingError.
EvLoaded ==
    /\ ev.pc = "load"
    /\ \E ok \in BOOLEAN :
         IF ok
         THEN /\ model' = model_name
              /\ loads' = loads + 1
         ELSE UNCHANGED <<model, loads>>
    /\ ev' = NoCall
    /\ UNCHANGED <<boot, model_name, tc, reloads, running, worker_task, wpc,
                   nonmvars>>

\* A process whose lifespan is about to start the worker and preload the
\* model: the manager is constructed, no model is loaded.
MInit ==
    /\ queue = <<>>
    /\ running = FALSE
    /\ cancelled_ids = {}
    /\ worker_task = 0
    /\ wpc = [w \in Workers |-> "unborn"]
    /\ wjob = [w \in Workers |-> None]
    /\ stop_wait = 0
    /\ next_seq = 1
    /\ cq = {}
    /\ failed_cb = [s \in 1..MaxJobs |-> 0]
    /\ last_exc = 0
    /\ AIdle
    /\ boot = "reconciled"
    /\ model = 0
    /\ model_name \in Models
    /\ tc = NoCall
    /\ ev = NoCall
    /\ loads = 0
    /\ reloads = 0
    /\ source = "upload"
    /\ file_chunks = 0
    /\ transcript = NoTranscript
    /\ dl = "idle"

MNext ==
    \/ LifespanReady
    \/ TcCall
    \/ TcLoaded
    \/ TcInfer
    \/ \E m \in Models : EvReload(m)
    \/ EvReloadName
    \/ EvLoaded

\* The TranscriptionManager of one process, called by lifespan, by the
\* pipeline's executor thread and by the configuration endpoint.
ManagerSpec == MInit /\ [][MNext]_vars

\* A step of the worker loop task w.  The event loop resumes a task that can
\* run; that a processor call comes to an end is the hypothesis under which
\* progress is claimed.
QWorkerStep(w) ==
    /\ \/ WorkerBegin(w)
       \/ WorkerWake(w)
       \/ ProcessorEnds(w)
       \/ FailureEnds(w)
    /\ UNCHANGED avars

\* The JobQueue while nobody calls stop_worker.
RunNext ==
    \/ \E m \in MediaIds : Enqueue(m) /\ UNCHANGED avars
    \/ \E m \in MediaIds : CancelJob(m) /\ UNCHANGED avars
    \/ StartWorker /\ UNCHANGED avars
    \/ \E w \in Workers : QWorkerStep(w)

RunningSpec ==
    QInit /\ [][RunNext]_vars /\ \A w \in Workers : WF_vars(QWorkerStep(w))

\* The JobQueue of a client that calls start_worker only when no stop_worker
\* call is waiting for the worker, under the same scheduling.
OrderlyNext ==
    \/ \E m \in MediaIds : Enqueue(m) /\ UNCHANGED avars
    \/ \E m \in MediaIds : CancelJob(m) /\ UNCHANGED avars
    \/ stop_wait = 0 /\ StartWorker /\ UNCHANGED avars
    \/ \E wait \in BOOLEAN : StopWorker(wait) /\ UNCHANGED avars
    \/ StopReturn /\ UNCHANGED avars
    \/ \E w \in Workers : QWorkerStep(w)

OrderlySpec ==
    QInit /\ [][OrderlyNext]_vars /\ \A w \in Workers : WF_vars(QWorkerStep(w))

\* ------------------------------------------------- claims about the queue

Working(w) == wpc[w] \in {"proc", "skip"}

\* C1: at most one processor invocation is in progress at any time, whatever
\* the sequence of enqueue, cancel_job, start_worker and stop_worker calls.
C1_AtMostOneProcessor ==
    Cardinality({w \in Workers : wpc[w] = "proc"}) <= 1

\* C2: jobs are taken strictly in enqueue order and one after the other:
\* while a worker works on job B no job enqueued before B is still queued or
\* still being worked on.
C2_FifoOneAtATime ==
    \A w \in Workers : Working(w) =>
        /\ \A j \in JobsIn(queue) : j # None => j.seq > wjob[w].seq
        /\ \A v \in Workers \ {w} : ~Working(v)

\* C3: a job whose id was cancelled while it was queued is never handed to
\* the processor, and once it has left the queue the failure callback has
\* been called for it exactly once.
C3_CancelledWhileQueuedIsSkipped ==
    /\ \A w \in Workers : wpc[w] = "proc" => wjob[w].seq \notin cq
    /\ \A s \in cq : (\A j \in JobsIn(queue) : j.seq # s) => failed_cb[s] = 1

\* ------------------------------------------ claims about the application

\* A processing attempt ends in this step (the processor returns).
AttemptEnds == ended' # ended

\* The chunk-file order of a source of n chunks: 0, 1, ..., n - 1.
AllChunks(n) == [i \in 1..n |-> i - 1]

\* C4: when the cancel endpoint has cancelled a job while the pipeline was
\* processing it, the Transcript's status once the processor has returned is
\* CANCELED.
C4_CancelledEndsCanceled ==
    [][(AttemptEnds /\ cancel_during /\ cancel_req.pc = "idle")
           => transcript'.status = "CANCELED"]_vars

\* C5: when a cancellation was requested and committed while chunk idx was
\* inside the inference call, the step that follows the call's return
\* persists no segment and does not advance last_processed_chunk.
C5_InFlightChunkDiscarded ==
    [][(cancel_in_chunk = "committed" /\ ppc = "commitC" /\ ppc' # "commitC")
           => /\ segments' = segments
              /\ transcript'.last_processed_chunk
                     = transcript.last_processed_chunk]_vars

\* C6: an attempt that ends in any way but completion leaves the chunk files
\* as they are, and chunk files are removed only in the step that commits
\* COMPLETED and ends the attempt.
C6_ChunkDirKept ==
    [][/\ (AttemptEnds /\ ended'.how # "completed")
              => chunk_files' = chunk_files
       /\ ~(chunk_files \subseteq chunk_files')
              => /\ AttemptEnds
                 /\ ended'.how = "completed"
                 /\ transcript'.status = "COMPLETED"]_vars

\* C6 witness: an attempt has ended on the cancellation flag after the
\* split, and the chunk files are still on disk.
C6_Witness ==
    /\ ended.how = "cancelled"
    /\ ppc = "idle"
    /\ transcript.total_chunks # Null
    /\ chunk_files # {}

\* C7: while an attempt runs the committed last_processed_chunk never
\* decreases, and the chunks it transcribes have strictly ascending indices.
C7_CheckpointMonotonic ==
    [][(ppc # "idle" /\ ppc' # "idle")
           => /\ transcript'.last_processed_chunk
                     >= transcript.last_processed_chunk
              /\ \A i, j \in 1..Len(tx_log') :
                     i < j => tx_log'[i] < tx_log'[j]]_vars

\* C7 witness: a resumed attempt (start_chunk > 0) has committed a
\* checkpoint beyond the one it started from.
C7_Witness ==
    /\ ppc \in {"refresh1", "commitF"}
    /\ start_chunk > 0
    /\ Len(tx_log) > 0
    /\ transcript.last_processed_chunk > start_chunk

\* C8: whenever total_chunks is known, last_processed_chunk does not exceed
\* it.
C8_CheckpointWithinTotal ==
    transcript.total_chunks # Null
        => transcript.last_processed_chunk <= transcript.total_chunks

\* C9: the splitter runs only for a job whose Transcript has
\* last_processed_chunk = 0.
C9_SplitOnlyOnFreshStart ==
    ppc = "split" => sess.last_processed_chunk = 0

\* C10: when the attempt after a failed one resumes an uploaded file from
\* checkpoint k (0 < k < n) and completes, it has transcribed exactly the
\* chunks k..n-1, once each and in order, the segments of the chunks below k
\* are still the first k persisted ones, and full_text holds every chunk's
\* text exactly once.
C10_ResumeKeepsAndCompletes ==
    [][(/\ AttemptEnds /\ ended'.how = "completed" /\ ended.how = "failed"
        /\ source = "upload"
        /\ 0 < start_chunk /\ start_chunk < Len(chunks))
           => /\ tx_log = SubSeq(AllChunks(Len(chunks)), start_chunk + 1,
                                 Len(chunks))
              /\ segments' = AllChunks(Len(chunks))
              /\ transcript'.full_text = AllChunks(Len(chunks))]_vars

\* C11: when a job that starts with last_processed_chunk = 0 is about to
\* transcribe its first chunk, no segment is persisted for the Transcript.
C11_FreshStartHasNoSegments ==
    (ppc \in {"refresh1", "transcribe"} /\ start_chunk = 0 /\ idx = 0)
        => segments = <<>>

\* C11 witness: after an attempt that failed before its first checkpoint, a
\* job enqueued by the YouTube re-download transcribes its first chunk.
C11_Witness ==
    /\ ppc = "transcribe" /\ start_chunk = 0 /\ idx = 0
    /\ source = "youtube"
    /\ ended.how = "failed"
    /\ segments = <<>>

\* C12: a COMPLETED Transcript's full_text is the texts of its persisted
\* segments in start_time order.
C12_FullTextIsSegments ==
    transcript.status = "COMPLETED"
        => transcript.full_text = ByStartTime(segments)

\* C13: the media never has a second Transcript row.
C13_OneTranscriptPerMedia ==
    twin = "NONE"

\* Request r of start_transcription commits and enqueues in this step.
StartCommits(r) == start_req[r].pc = "write" /\ start_req'[r].pc = "idle"

\* C14: a start request on a media whose Transcript is FAILED or CANCELED
\* and whose file is on disk is accepted, and when it commits the row is
\* PENDING with no error_message, last_processed_chunk is what it was, and
\* exactly one job has been added to the queue.
C14_FailedIsResumable ==
    [][/\ (transcript.status \in {"FAILED", "CANCELED"} /\ file_chunks > 0)
              => StartOutcome = "accepted"
       /\ \A r \in Starts :
              (StartCommits(r)
                   /\ start_req[r].snap.status \in {"FAILED", "CANCELED"})
              => /\ transcript'.status = "PENDING"
                 /\ transcript'.error_message = "none"
                 /\ transcript'.last_processed_chunk
                        = transcript.last_processed_chunk
                 /\ Len(queue') = Len(queue) + 1]_vars

\* C15: a start request on a media whose Transcript is PENDING or PROCESSING
\* is answered with a Conflict exactly when the row is not stale, and is
\* accepted when the row is stale.
C15_ConflictIffNotStale ==
    (transcript.exists /\ transcript.status \in {"PENDING", "PROCESSING"})
        => /\ (StartOutcome = "conflict") <=> ~stale
           /\ stale => StartOutcome = "accepted"

\* C16: a cancel request for a Transcript that is missing or is not PENDING
\* or PROCESSING changes nothing: no step marks the media id in the
\* cancellation set or opens a cancel commit unless a row of the media is
\* PENDING or PROCESSING, and every cancel commit belongs to a request that
\* read such a row.
C16_RejectedCancelChangesNothing ==
    [][/\ ((1 \in cancelled_ids' /\ 1 \notin cancelled_ids)
               \/ (cancel_req'.pc = "commit" /\ cancel_req.pc = "idle"))
              => \/ CancelOutcome(transcript) = "canceled"
                 \/ twin = "PENDING"
       /\ cancel_req.pc = "commit"
              => cancel_req.snap.status \in {"PENDING", "PROCESSING"}]_vars

\* C16 witness: a cancel request made now is a Conflict (the row is FAILED or
\* COMPLETED after an attempt), and nothing is marked or being committed.
C16_Witness ==
    /\ CancelOutcome(transcript) = "conflict"
    /\ transcript.status \in {"FAILED", "COMPLETED"}
    /\ ended.seq > 0
    /\ cancelled_ids = {}
    /\ cancel_req.pc = "idle"

\* C17: a cancel request for a PENDING or PROCESSING Transcript marks the
\* media id in the cancellation set, and when it commits the row has
\* error_message "Canceled by user" and is neither PENDING nor PROCESSING.
C17_CancelRecorded ==
    [][/\ (cancel_req.pc = "idle" /\ cancel_req'.pc = "commit")
              => 1 \in cancelled_ids'
       /\ (cancel_req.pc = "commit" /\ cancel_req'.pc = "idle")
              => /\ transcript'.error_message = "canceled_by_user"
                 /\ transcript'.status \notin {"PENDING", "PROCESSING"}]_vars

\* C18: when stop_worker(wait_for_current=True) returns, the queue holds no
\* sentinel and no real job: everything enqueued before the stop call has
\* been taken by the worker.
C18_StopDrainsQueue ==
    [][(stop_wait # 0 /\ stop_wait' = 0) => queue' = <<>>]_vars

\* The worker w leaves a processor call that raised.
ProcessorRaised(w) ==
    /\ wpc[w] = "proc"
    /\ last_exc # wjob[w].seq
    /\ last_exc' = wjob[w].seq

\* C19: an exception raised by the processor does not end the worker loop:
\* while the queue is running, the worker that caught it stays alive, the
\* failed job is no longer in the queue, and the job at the head of the queue
\* (if any) is the next one the worker takes, processing it unless its id is
\* marked cancelled.
C19_ExceptionKeepsWorker ==
    [][\A w \in Workers :
         (ProcessorRaised(w) /\ running) =>
             /\ wjob[w] \notin JobsIn(queue')
             /\ IF queue = <<>>
                THEN wpc'[w] = "get" /\ queue' = <<>>
                ELSE /\ queue' = Tail(queue)
                     /\ Head(queue) = None => wpc'[w] = "done"
                     /\ Head(queue) # None =>
                            /\ wjob'[w] = Head(queue)
                            /\ wpc'[w] \in {"proc", "skip"}
                            /\ wpc'[w] = "skip"
                                   <=> Head(queue).media_id \in cancelled_ids']_vars

\* C19 witness: the only worker ever started is processing a job, and the
\* processor raised for the job it took just before.
C19_Witness ==
    /\ worker_task = 1
    /\ running
    /\ wpc[1] = "proc"
    /\ wjob[1].seq > 1
    /\ last_exc = wjob[1].seq - 1

\* C20: whichever way the worker's handling of a job ends (processor returned
\* or raised, job skipped, failure callback raised), the job's id is not in
\* the cancellation set when the worker goes on.
C20_FlagClearedOnEveryExit ==
    [][\A w \in Workers :
         (wpc[w] \in {"proc", "skip"} /\ <<wpc'[w], wjob'[w]>> # <<wpc[w], wjob[w]>>)
             => wjob[w].media_id \notin cancelled_ids']_vars

\* C21: the cancellation set only holds ids of jobs that are queued or being
\* handled, and a job is skipped only if its id was cancelled while it was
\* queued: a cancel_job issued when no job of the id is queued or executing
\* does not touch a job enqueued later.
C21_StaleCancelHasNoEffect ==
    /\ \A m \in cancelled_ids :
          \/ \E j \in JobsIn(queue) : j.media_id = m
          \/ \E w \in Workers : Working(w) /\ wjob[w].media_id = m
    /\ \A w \in Workers : wpc[w] = "skip" => wjob[w].seq \in cq

\* The pipeline's except branch has run: handle_job_failure returned.
FailureHandled == ppc = "fail" /\ ended' # ended

\* C22: when an exception ends the processing of a job, the Transcript is
\* FAILED with an error_message holding the exception text and the last known
\* progress, and the committed last_processed_chunk and segments are as they
\* were.
C22_FailureRecordedWithProgress ==
    [][FailureHandled =>
          /\ transcript'.status = "FAILED"
          /\ transcript'.error_message = "job_interrupted"
          /\ {"exception_text", "progress"} \subseteq FailureMessageParts
          /\ transcript'.last_processed_chunk = transcript.last_processed_chunk
          /\ segments' = segments]_vars

\* ------------------------------------------ claims about crash recovery

\* reconcile_stuck_jobs returns in this step.
Reconciled == boot = "down" /\ boot' = "reconciled"

\* C23: reconciliation is over before the worker exists, and when it is over
\* no Transcript is PROCESSING or PENDING: such a row is FAILED with an
\* interruption message, its checkpoint, total and segments are kept, and a
\* row in any other status is as it was.
C23_ReconcileFailsStuckRows ==
    [][Reconciled =>
          /\ wpc'[1] = "unborn" /\ queue' = <<>> /\ ~running'
          /\ transcript'.status \notin {"PROCESSING", "PENDING"}
          /\ twin' \notin {"PROCESSING", "PENDING"}
          /\ transcript.status \in {"PROCESSING", "PENDING"} =>
                /\ transcript'.status = "FAILED"
                /\ transcript'.error_message
                       \in {"interrupted_during", "interrupted_before"}
          /\ transcript.status \notin {"PROCESSING", "PENDING"} =>
                transcript' = transcript
          /\ twin # "PENDING" => twin' = twin
          /\ transcript'.last_processed_chunk = transcript.last_processed_chunk
          /\ transcript'.total_chunks = transcript.total_chunks
          /\ transcript'.full_text = transcript.full_text
          /\ segments' = segments]_vars

\* C23 witness: reconciliation has just failed a row that was PROCESSING
\* with one chunk checkpointed; the checkpoint and the segment are there.
C23_Witness ==
    /\ boot = "reconciled"
    /\ transcript.status = "FAILED"
    /\ transcript.error_message = "interrupted_during"
    /\ transcript.last_processed_chunk = 1
    /\ transcript.total_chunks = 2
    /\ segments = <<0>>

\* C24: after startup reconciliation every Transcript is COMPLETED, FAILED or
\* CANCELED, whatever the point at which the previous process died.
C24_NoNonTerminalAfterRestart ==
    boot = "reconciled" =>
        /\ transcript.exists =>
              transcript.status \in {"COMPLETED", "FAILED", "CANCELED"}
        /\ twin \in {"NONE", "COMPLETED", "FAILED", "CANCELED"}

\* C28: lifespan's startup always completes, with the worker running and the
\* application serving, whether or not the eager preload of the model
\* succeeded.
C28_PreloadFailureNotFatal ==
    [][(boot = "reconciled" /\ boot' # "reconciled") =>
          /\ boot' = "up"
          /\ running'
          /\ wpc'[1] = "start"]_vars

\* C25: every change of the Transcript's durable status follows the state
\* machine DOWNLOADING -> PENDING, PENDING -> PROCESSING, PROCESSING ->
\* COMPLETED | FAILED | CANCELED, FAILED | CANCELED -> PENDING; COMPLETED is
\* never left.
C25_StatusStateMachine ==
    [][(transcript.exists /\ transcript'.exists
          /\ transcript'.status # transcript.status) =>
          <<transcript.status, transcript'.status>> \in
              { <<"DOWNLOADING", "PENDING">>, <<"PENDING", "PROCESSING">>,
                <<"PROCESSING", "COMPLETED">>, <<"PROCESSING", "FAILED">>,
                <<"PROCESSING", "CANCELED">>, <<"FAILED", "PENDING">>,
                <<"CANCELED", "PENDING">> }]_vars

\* ------------------------------------ claims about the TranscriptionManager

TcCalled == tc = NoCall /\ tc' # NoCall

\* C26: without a reload that dropped the model, the process builds the model
\* at most once; a transcribe_chunk call that starts while a model is loaded
\* goes straight to inference and neither builds a model nor changes _model,
\* at its start and until it returns.
C26_LoadedAtMostOnce ==
    [][/\ reloads' = 0 => loads' <= 1
       /\ (TcCalled /\ model # 0) =>
              /\ tc' = [pc |-> "ready", name |-> 0]
              /\ model' = model
              /\ loads' = loads
       /\ (tc = [pc |-> "ready", name |-> 0] /\ tc' # tc) =>
              /\ tc' = NoCall
              /\ model' = model
              /\ loads' = loads]_vars

C26_Witness ==
    /\ tc = [pc |-> "ready", name |-> 0]
    /\ model = model_name
    /\ loads = 1
    /\ reloads = 0

\* C27: reload_model(m) does nothing exactly when m is the id of the model
\* that is loaded; otherwise it drops the model, sets the model id to m and
\* builds exactly one model.
C27_ReloadNoOpOrOneLoad ==
    [][/\ (boot = "up" /\ ev = NoCall) =>
              \A m \in Models :
                  ReloadOutcome(m, model, model_name) = "noop" <=> model = m
       /\ (ev = NoCall /\ ev' # NoCall) =>
              /\ ev'.pc = "dropped"
              /\ model' = 0
       /\ (ev.pc = "dropped" /\ ev' # ev) =>
              /\ model_name' = ev.name
              /\ ev'.pc = "load"
       /\ (ev.pc = "load" /\ ev' # ev) =>
              /\ ev' = NoCall
              /\ loads' \in {loads, loads + 1}
              /\ loads' = loads + 1 => model' = model_name]_vars

\* C31: while a transcribe_chunk call is under way on the executor thread,
\* only that call changes _model and _model_name: a reload_model call of the
\* configuration endpoint neither drops nor replaces the model.
C31_ThreadSoleMutator ==
    [][(tc # NoCall /\ tc' = tc) =>
          /\ model' = model
          /\ model_name' = model_name]_vars

\* --------------------------------------------- claims about the splitter

\* AudioChunker.DEFAULT_CHUNK_DURATION, in seconds.
DEFAULT_CHUNK_DURATION == 60

\* The ChunkInfo list split_audio builds from the sorted chunk files it finds:
\* index and start_time come from the position in the list, path from the
\* file.
ChunkInfos(found) ==
    [p \in 1..Len(found) |->
        [index |-> p - 1, file |-> found[p],
         start_time |-> (p - 1) * DEFAULT_CHUNK_DURATION]]

SplitReturned == ppc = "split" /\ ppc' = "commit0"

\* C29: split_audio returns exactly the chunk files its transcoder run
\* produced, chunk_0000 .. chunk_(n-1) of a source of n chunks, with index i
\* at position i and start_time = i * chunk_duration; files of an earlier
\* split are not reported.
C29_SplitReturnsOwnChunks ==
    [][SplitReturned =>
          LET infos == ChunkInfos(chunks')
          IN  /\ Len(infos) = file_chunks
              /\ \A p \in 1..Len(infos) :
                    /\ infos[p].index = p - 1
                    /\ infos[p].file = p - 1
                    /\ infos[p].start_time = (p - 1) * DEFAULT_CHUNK_DURATION]_vars

SplitRaised == ppc = "split" /\ ppc' = "fail"

\* C30: a split_audio call that raises leaves no chunk file behind that it
\* wrote, and the attempt it ends is recorded on the Transcript as FAILED.
C30_FailedSplitLeavesNothing ==
    [][/\ SplitRaised => chunk_files' = chunk_files
       /\ (FailureHandled /\ chunks = <<>> /\ twin = "NONE") =>
              transcript'.status = "FAILED"]_vars

\* ------------------------------------------------ claims about ownership

\* C32: from the split to the end of a processing attempt the chunk files of
\* the job change only in steps of the pipeline itself.
C32_PipelineOwnsChunks ==
    [][(wpc[1] = "proc" /\ ppc \notin {"idle", "load", "split"}
          /\ chunk_files' # chunk_files) =>
          <<ppc', plocals', wpc'>> # <<ppc, plocals, wpc>>]_vars

\* ------------------------------------------------ claims about checkpoints

\* C33: in every durable state the persisted segments are exactly those of
\* the chunks below last_processed_chunk, each once.
C33_SegmentsMatchCheckpoint ==
    transcript.exists =>
        segments = [p \in 1..transcript.last_processed_chunk |-> p - 1]

\* -------------------------------------------- claims about the language

\* C34: a job without a language passes to every chunk after the first one
\* transcribed in the attempt the language detected on that first chunk; a
\* job with a language passes that language to every chunk.
C34_LanguageLocked ==
    lang_log # <<>> =>
        LET pin == lang_log[1].passed
            locked == IF pin # 0 THEN pin ELSE lang_log[1].detected
        IN  /\ \A p \in 2..Len(lang_log) : lang_log[p].passed = locked
            /\ job_language = locked

C34_Witness ==
    /\ Len(lang_log) = 3
    /\ lang_log[1].passed = 0
    /\ lang_log[2].detected # lang_log[1].detected
    /\ lang_log[3].passed = lang_log[1].detected

\* ----------------------------------------------- claims about the duration

\* The duration split_audio measures on a chunk file; the chunk files are
\* taken to be of full length.
ChunkFileDuration(f) == DEFAULT_CHUNK_DURATION

\* The local total_duration when the loop is over: 0.0 as initialised, or
\* start_time + duration of the chunk committed last in this attempt.
TotalDuration(txl, ch) ==
    IF txl = <<>> THEN 0
    ELSE LET p == txl[Len(txl)] + 1
         IN  ChunkInfos(ch)[p].start_time + ChunkFileDuration(ch[p])

LastChunkEnd(ch) ==
    ChunkInfos(ch)[Len(ch)].start_time + ChunkFileDuration(ch[Len(ch)])

Completes == ppc = "commitF" /\ ended' # ended

\* C35: the duration_seconds written with COMPLETED is the end time of the
\* last chunk of the media, in fresh and in resumed runs.
C35_DurationIsLastChunkEnd ==
    [][Completes => TotalDuration(tx_log, chunks) = LastChunkEnd(chunks)]_vars

\* ------------------------------------------------- claims about progress

Queued(s) == \E j \in JobsIn(queue) : j # None /\ j.seq = s

Taken(s) == \E w \in Workers : Working(w) /\ wjob[w].seq = s

\* C36: while the worker is running, every job in the queue is eventually
\* handed to the processor or skipped as cancelled, whatever the jobs before
\* it did.
C36_QueuedJobIsTaken ==
    \A s \in 1..MaxJobs : (running /\ Queued(s)) ~> Taken(s)

C36_Witness ==
    /\ running
    /\ wpc[1] = "proc"
    /\ wjob[1].seq = 2
    /\ last_exc = 1

Alive(w) == wpc[w] \notin {"unborn", "done"}

\* start_worker has created a second worker loop, after the stop_worker call
\* that ended the first had returned.
Restarted == worker_task >= 2

\* C37: after a stop and a new start, is_running is true only while a worker
\* loop is alive, and every job in the queue is eventually taken unless the
\* worker is stopped again.
C37_RestartedQueueWorks ==
    /\ [](Restarted /\ running => \E w \in Workers : Alive(w))
    /\ \A s \in 1..MaxJobs :
          (Restarted /\ running /\ Queued(s)) ~> (Taken(s) \/ ~running)

\* ------------------------------------------- claims about jobs and rows

\* The jobs of media m that are in the queue or held by a worker.
LiveJobs(m) ==
    {j \in JobsIn(queue) : j # None /\ j.media_id = m}
        \cup {wjob[w] : w \in {v \in Workers : Working(v) /\ wjob[v].media_id = m}}

\* C38: at any time at most one job of a media is queued or executing.
C38_OneJobPerMedia ==
    \A m \in MediaIds : Cardinality(LiveJobs(m)) <= 1

\* C39: when the queue is empty, the worker idle and no download or request
\* under way, no Transcript is PENDING or PROCESSING.
C39_IdleMeansSettled ==
    (queue = <<>> /\ (\A w \in Workers : ~Working(w)) /\ dl = "idle"
        /\ cancel_req = NoRequest
        /\ \A r \in Starts : start_req[r] = NoRequest) =>
        /\ transcript.status \notin {"PENDING", "PROCESSING"}
        /\ twin \notin {"PENDING", "PROCESSING"}

\* A Transcript that is COMPLETED with every chunk processed.
CompletedInFull(t) ==
    /\ t.status = "COMPLETED"
    /\ t.total_chunks > 0
    /\ t.last_processed_chunk = t.total_chunks

\* The job under way found every chunk of the split already processed, on a
\* row that carried a full_text.
RerunOfCompleted ==
    /\ sess.full_text # NullText
    /\ start_chunk > 0
    /\ start_chunk = Len(chunks)

\* C40: start_transcription resets last_processed_chunk only when it is 0:
\* when it commits on a COMPLETED Transcript with last_processed_chunk =
\* total_chunks > 0 it deletes no segment and keeps the checkpoint and the
\* full_text, and the job that finds every chunk processed transcribes no
\* chunk and ends with the row COMPLETED and the full_text it had.
C40_RerunKeepsTranscript ==
    [][/\ ((\E r \in Starts : StartCommits(r)) /\ CompletedInFull(transcript)) =>
            /\ segments' = segments
            /\ transcript'.last_processed_chunk = transcript.last_processed_chunk
            /\ transcript'.full_text = transcript.full_text
       /\ (Completes /\ RerunOfCompleted) =>
            /\ tx_log = <<>>
            /\ segments' = segments
            /\ transcript'.status = "COMPLETED"
            /\ transcript'.full_text = sess.full_text]_vars

====
